---- MODULE Spec2Model ----
(***************************************************************************)
(* A model of the Firecrawl tool router: FirecrawlAgent.identify_tool,     *)
(* extract_parameters, _validate_parameters and process_request            *)
(* (src/MCP_Tool/claude_test.py) and of the six Firecrawl tool functions   *)
(* (src/MCP_Tool/firecrawl_fapi.py).                                       *)
(*                                                                         *)
(* Texts are TLA+ strings.  Python's re is modelled by a small             *)
(* backtracking matcher over a regular-expression syntax tree, which       *)
(* enumerates the end positions of a match in the order in which Python's  *)
(* matcher tries them (greedy repetition first, alternatives left to       *)
(* right).                                                                 *)
(***************************************************************************)
EXTENDS Integers, Sequences, FiniteSets, TLC

(***************************************************************************)
(* Characters and str methods                                              *)
(***************************************************************************)
None == "None"

Char(s, i) == SubSeq(s, i, i)

Digits == {"0", "1", "2", "3", "4", "5", "6", "7", "8", "9"}

LowerLetters ==
  {"a", "b", "c", "d", "e", "f", "g", "h", "i", "j", "k", "l", "m",
   "n", "o", "p", "q", "r", "s", "t", "u", "v", "w", "x", "y", "z"}

UpperToLower ==
  ("A" :> "a") @@ ("B" :> "b") @@ ("C" :> "c") @@ ("D" :> "d") @@
  ("E" :> "e") @@ ("F" :> "f") @@ ("G" :> "g") @@ ("H" :> "h") @@
  ("I" :> "i") @@ ("J" :> "j") @@ ("K" :> "k") @@ ("L" :> "l") @@
  ("M" :> "m") @@ ("N" :> "n") @@ ("O" :> "o") @@ ("P" :> "p") @@
  ("Q" :> "q") @@ ("R" :> "r") @@ ("S" :> "s") @@ ("T" :> "t") @@
  ("U" :> "u") @@ ("V" :> "v") @@ ("W" :> "w") @@ ("X" :> "x") @@
  ("Y" :> "y") @@ ("Z" :> "z")

WhiteSpace == {" ", "\t", "\n", "\r", "\f"}

\* the characters of \w
WordChars == LowerLetters \cup DOMAIN UpperToLower \cup Digits \cup {"_"}

\* The characters excluded by the character class of url_pattern.  The class
\* also excludes the backquote, which no text of the model contains.
UrlStop == WhiteSpace \cup {"<", ">", "\"", "{", "}", "|", "\\", "^", "[", "]"}

LowerChar(c) == IF c \in DOMAIN UpperToLower THEN UpperToLower[c] ELSE c

RECURSIVE LowerFrom(_, _)
LowerFrom(s, i) ==
  IF i > Len(s) THEN "" ELSE LowerChar(Char(s, i)) \o LowerFrom(s, i + 1)

\* str.lower()
Lower(s) == LowerFrom(s, 1)

\* the operator 'in' of two strings
Contains(s, kw) ==
  \E i \in 0..(Len(s) - Len(kw)) : SubSeq(s, i + 1, i + Len(kw)) = kw

\* any(keyword in s for keyword in kws)
ContainsAny(s, kws) == \E k \in 1..Len(kws) : Contains(s, kws[k])

\* str.find(): the offset of the first occurrence, -1 when there is none
Find(s, kw) ==
  IF Contains(s, kw)
  THEN CHOOSE i \in 0..(Len(s) - Len(kw)) :
         /\ SubSeq(s, i + 1, i + Len(kw)) = kw
         /\ \A j \in 0..(i - 1) : SubSeq(s, j + 1, j + Len(kw)) # kw
  ELSE -1

RECURSIVE LStripFrom(_, _)
LStripFrom(s, i) ==
  IF i <= Len(s) /\ Char(s, i) \in WhiteSpace THEN LStripFrom(s, i + 1) ELSE i

RECURSIVE RStripFrom(_, _)
RStripFrom(s, j) ==
  IF j >= 1 /\ Char(s, j) \in WhiteSpace THEN RStripFrom(s, j - 1) ELSE j

\* str.strip()
Strip(s) == SubSeq(s, LStripFrom(s, 1), RStripFrom(s, Len(s)))

RECURSIVE DigitsValue(_, _)
DigitsValue(s, n) ==
  IF n = 0 THEN 0
  ELSE 10 * DigitsValue(s, n - 1) +
       (CHOOSE d \in 0..9 : ToString(d) = Char(s, n))

\* int() of a string of decimal digits
ToInt(s) == DigitsValue(s, Len(s))

(***************************************************************************)
(* Regular expressions (module re)                                         *)
(***************************************************************************)
Lit(str) == [t |-> "lit", s |-> str]
Cls(name) == [t |-> "cls", c |-> name]
Cat(items) == [t |-> "cat", items |-> items]
Alt(items) == [t |-> "alt", items |-> items]
Opt(r) == [t |-> "opt", r |-> r]
Star(r) == [t |-> "star", r |-> r]
\* a literal under re.IGNORECASE; str is in lower case
LitI(str) == [t |-> "ilit", s |-> str]
Plus(r) == Cat(<<r, Star(r)>>)
WordBoundary == [t |-> "wb"]

InClass(name, c) ==
  CASE name = "space" -> c \in WhiteSpace          \* \s
    [] name = "digit" -> c \in Digits              \* \d
    [] name = "dot" -> c # "\n"                    \* .
    [] name = "url" -> c \notin UrlStop            \* the class of url_pattern
    [] name = "term" -> c \notin {",", ".", "\n"}  \* [^,.\n]

\* \b between offsets i and i+1 of s
AtWordBoundary(s, i) ==
  LET before == i >= 1 /\ Char(s, i) \in WordChars
      after == i < Len(s) /\ Char(s, i + 1) \in WordChars
  IN before # after

RECURSIVE Ends(_, _, _)
RECURSIVE EndsCat(_, _, _, _)
RECURSIVE FlatCat(_, _, _, _, _)
RECURSIVE EndsAlt(_, _, _, _)
RECURSIVE EndsStar(_, _, _)
RECURSIVE FlatStar(_, _, _, _, _)

\* The offsets at which a match of r that starts at offset i of s can end,
\* in the order in which a backtracking matcher finds them.
Ends(r, s, i) ==
  CASE r.t = "lit" ->
         IF i + Len(r.s) <= Len(s) /\ SubSeq(s, i + 1, i + Len(r.s)) = r.s
         THEN <<i + Len(r.s)>> ELSE <<>>
    [] r.t = "ilit" ->
         IF i + Len(r.s) <= Len(s)
            /\ Lower(SubSeq(s, i + 1, i + Len(r.s))) = r.s
         THEN <<i + Len(r.s)>> ELSE <<>>
    [] r.t = "cls" ->
         IF i < Len(s) /\ InClass(r.c, Char(s, i + 1)) THEN <<i + 1>> ELSE <<>>
    [] r.t = "wb" -> IF AtWordBoundary(s, i) THEN <<i>> ELSE <<>>
    [] r.t = "cat" -> EndsCat(r.items, 1, s, i)
    [] r.t = "alt" -> EndsAlt(r.items, 1, s, i)
    [] r.t = "opt" -> Ends(r.r, s, i) \o <<i>>
    [] r.t = "star" -> EndsStar(r.r, s, i)

EndsCat(items, k, s, i) ==
  IF k > Len(items) THEN <<i>>
  ELSE FlatCat(items, k, s, Ends(items[k], s, i), 1)

FlatCat(items, k, s, es, j) ==
  IF j > Len(es) THEN <<>>
  ELSE EndsCat(items, k + 1, s, es[j]) \o FlatCat(items, k, s, es, j + 1)

EndsAlt(items, k, s, i) ==
  IF k > Len(items) THEN <<>>
  ELSE Ends(items[k], s, i) \o EndsAlt(items, k + 1, s, i)

EndsStar(r, s, i) == FlatStar(r, s, i, Ends(r, s, i), 1) \o <<i>>

FlatStar(r, s, i, es, j) ==
  IF j > Len(es) THEN <<>>
  ELSE (IF es[j] > i THEN EndsStar(r, s, es[j]) ELSE <<>>)
       \o FlatStar(r, s, i, es, j + 1)

\* re.search(r, s) is not None
Search(r, s) == \E i \in 0..Len(s) : Ends(r, s, i) # <<>>

\* the offset at which the match of re.search(r, s) starts
SearchStart(r, s) ==
  CHOOSE i \in 0..Len(s) :
    /\ Ends(r, s, i) # <<>>
    /\ \A j \in 0..(i - 1) : Ends(r, s, j) = <<>>

RECURSIVE FirstGroup(_, _, _, _, _, _)
\* The span of the group g in the first match of pre(g)post that starts at
\* one of the offsets es[j..], tried in order; <<>> when there is none.
FirstGroup(g, post, s, es, j, gs) ==
  IF j > Len(es) THEN <<>>
  ELSE IF gs = <<>> THEN
         LET ge == Ends(g, s, es[j])
         IN IF ge = <<>> THEN FirstGroup(g, post, s, es, j + 1, <<>>)
            ELSE FirstGroup(g, post, s, es, j, ge)
       ELSE IF Ends(post, s, Head(gs)) # <<>> THEN <<es[j], Head(gs)>>
            ELSE IF Len(gs) > 1 THEN FirstGroup(g, post, s, es, j, Tail(gs))
                 ELSE FirstGroup(g, post, s, es, j + 1, <<>>)

\* re.search(pre(g)post, s).group(1), or None when nothing matches
SearchGroup(pre, g, post, s) ==
  LET whole == Cat(<<pre, g, post>>)
  IN IF ~Search(whole, s) THEN None
     ELSE LET i == SearchStart(whole, s)
              span == FirstGroup(g, post, s, Ends(pre, s, i), 1, <<>>)
          IN SubSeq(s, span[1] + 1, span[2])

RECURSIVE FindAllFrom(_, _, _)
\* re.findall(r, s) for an r that matches no empty string
FindAllFrom(r, s, i) ==
  IF i > Len(s) THEN <<>>
  ELSE LET es == Ends(r, s, i)
       IN IF es = <<>> THEN FindAllFrom(r, s, i + 1)
          ELSE <<SubSeq(s, i + 1, Head(es))>> \o FindAllFrom(r, s, Head(es))

FindAll(r, s) == FindAllFrom(r, s, 0)

S0 == Star(Cls("space"))
S1 == Plus(Cls("space"))
D1 == Plus(Cls("digit"))
AnyRun == Star(Cls("dot"))
Empty == Cat(<<>>)
OneOf(strs) == Alt([k \in 1..Len(strs) |-> Lit(strs[k])])

RECURSIVE SubFrom(_, _, _)
\* re.sub(r, '', s) for an r that matches no empty string
SubFrom(r, s, i) ==
  IF i >= Len(s) THEN ""
  ELSE LET es == Ends(r, s, i)
       IN IF es = <<>> THEN Char(s, i + 1) \o SubFrom(r, s, i + 1)
          ELSE SubFrom(r, s, Head(es))

Sub(r, s) == SubFrom(r, s, 0)

(***************************************************************************)
(* FirecrawlAgent: the pattern catalog and identify_tool                   *)
(***************************************************************************)
The == Opt(Cat(<<Lit("the"), S1>>))
All == Opt(Cat(<<Lit("all"), S1>>))
Plural(str) == Cat(<<Lit(str), Opt(Lit("s"))>>)

\* the patterns of self.tool_patterns as re compiles them, in the insertion
\* order of the dict
CompiledPatterns == <<
  [name |-> "scrape_website", patterns |-> <<
     Cat(<<Lit("scrap"), Opt(Lit("e")), S1, The,
           OneOf(<<"website", "page", "url", "site">>)>>),
     Cat(<<Lit("get"), S1, Lit("content"), S1, Lit("from")>>),
     Cat(<<Lit("extract"), S1, OneOf(<<"data", "content", "text">>), S1,
           Lit("from"), S1, OneOf(<<"website", "url", "page">>)>>),
     Cat(<<Lit("fetch"), S1, OneOf(<<"data", "content">>), S1, Lit("from")>>)
  >>],
  [name |-> "crawl_website", patterns |-> <<
     Cat(<<Lit("crawl"), S1, The, OneOf(<<"website", "site">>)>>),
     Cat(<<Lit("get"), S1, Lit("multiple"), S1, Lit("pages")>>),
     Cat(<<Lit("crawl"), S1, D1, S1, Lit("pages")>>),
     Cat(<<Lit("crawl"), AnyRun, Lit("limit"), AnyRun, D1>>),
     Cat(<<Lit("spider"), S1, The, Lit("website")>>)
  >>],
  [name |-> "search_website", patterns |-> <<
     Cat(<<Lit("search"), S1, Opt(Cat(<<Lit("for"), S1>>)),
           Alt(<<Plural("website"), Lit("web"), Lit("internet")>>)>>),
     Cat(<<Lit("find"), S1, Alt(<<Plural("website"), Plural("page")>>), S1,
           OneOf(<<"about", "with", "containing">>)>>),
     Cat(<<Lit("search"), S1, The, OneOf(<<"web", "internet">>), S1,
           Lit("for")>>),
     Cat(<<Lit("web"), S1, Lit("search")>>)
  >>],
  [name |-> "map_links", patterns |-> <<
     Cat(<<OneOf(<<"map", "find", "get", "list">>), S1, All, Lit("links")>>),
     Cat(<<Lit("discover"), S1, Lit("links")>>),
     Cat(<<Lit("find"), S1, All, Alt(<<Plural("url"), Lit("links")>>), S1,
           OneOf(<<"on", "from">>)>>),
     Cat(<<Lit("map"), S1, The, OneOf(<<"website", "site">>), S1,
           Lit("structure")>>)
  >>],
  [name |-> "extract_content", patterns |-> <<
     Cat(<<Lit("extract"), S1, Opt(Cat(<<Lit("structured"), S1>>)),
           OneOf(<<"data", "content", "information">>)>>),
     Cat(<<Lit("get"), S1, Lit("specific"), S1,
           OneOf(<<"data", "information">>)>>),
     Cat(<<Lit("parse"), S1, OneOf(<<"data", "content">>), S1, Lit("from")>>),
     Cat(<<Lit("extract"), AnyRun, Lit("using"), AnyRun,
           OneOf(<<"schema", "structure", "format">>)>>)
  >>],
  [name |-> "deep_analysis", patterns |-> <<
     Cat(<<OneOf(<<"deep", "thorough", "comprehensive">>), S1,
           OneOf(<<"analysis", "research">>)>>),
     Cat(<<Lit("research"), S1, OneOf(<<"about", "on">>)>>),
     Cat(<<Lit("analyze"), S1, OneOf(<<"deeply", "thoroughly">>)>>),
     Cat(<<Lit("in-depth"), S1, OneOf(<<"analysis", "research", "study">>)>>)
  >>]
>>

\* self.tool_patterns, in the insertion order of the dict
ToolPatterns == <<
  [name |-> "scrape_website", patterns |-> <<
     "scrape?\\s+(?:the\\s+)?(?:website|page|url|site)",
     "get\\s+content\\s+from",
     "extract\\s+(?:data|content|text)\\s+from\\s+(?:website|url|page)",
     "fetch\\s+(?:data|content)\\s+from"
  >>],
  [name |-> "crawl_website", patterns |-> <<
     "crawl\\s+(?:the\\s+)?(?:website|site)",
     "get\\s+multiple\\s+pages",
     "crawl\\s+\\d+\\s+pages",
     "crawl.*limit.*\\d+",
     "spider\\s+(?:the\\s+)?website"
  >>],
  [name |-> "search_website", patterns |-> <<
     "search\\s+(?:for\\s+)?(?:websites?|web|internet)",
     "find\\s+(?:websites?|pages?)\\s+(?:about|with|containing)",
     "search\\s+(?:the\\s+)?(?:web|internet)\\s+for",
     "web\\s+search"
  >>],
  [name |-> "map_links", patterns |-> <<
     "(?:map|find|get|list)\\s+(?:all\\s+)?links",
     "discover\\s+links",
     "find\\s+(?:all\\s+)?(?:urls?|links)\\s+(?:on|from)",
     "map\\s+(?:the\\s+)?(?:website|site)\\s+structure"
  >>],
  [name |-> "extract_content", patterns |-> <<
     "extract\\s+(?:structured\\s+)?(?:data|content|information)",
     "get\\s+specific\\s+(?:data|information)",
     "parse\\s+(?:data|content)\\s+from",
     "extract.*using.*(?:schema|structure|format)"
  >>],
  [name |-> "deep_analysis", patterns |-> <<
     "(?:deep|thorough|comprehensive)\\s+(?:analysis|research)",
     "research\\s+(?:about|on)",
     "analyze\\s+(?:deeply|thoroughly)",
     "in-depth\\s+(?:analysis|research|study)"
  >>]
>>

\* the pattern strings of the catalog with their compiled forms
CompileTable ==
  LET places == {place \in (1..Len(ToolPatterns)) \X (1..5) :
                   place[2] <= Len(ToolPatterns[place[1]].patterns)}
      PlaceOf(pattern) ==
        CHOOSE place \in places :
          ToolPatterns[place[1]].patterns[place[2]] = pattern
  IN [pattern \in {ToolPatterns[place[1]].patterns[place[2]] :
                     place \in places} |->
        CompiledPatterns[PlaceOf(pattern)[1]].patterns[PlaceOf(pattern)[2]]]

\* re.compile(pattern) for a pattern of the catalog
Compile(pattern) == CompileTable[pattern]

ToolNames == {ToolPatterns[k].name : k \in 1..Len(ToolPatterns)}

\* any(re.search(pattern, text) for pattern in patterns)
AnyPatternMatches(patterns, text) ==
  \E p \in 1..Len(patterns) : Search(Compile(patterns[p]), text)

UrlKeywords == <<"http", "www", ".com", ".org", ".net">>
CrawlKeywords == <<"crawl", "multiple", "pages", "limit">>
LinkKeywords == <<"links", "map", "discover">>
SearchKeywords == <<"search", "find">>

\* the fallback logic as it would be if links were tested before crawling
FallbackToolLinksFirst(lower) ==
  IF ContainsAny(lower, UrlKeywords)
  THEN IF ContainsAny(lower, LinkKeywords) THEN "map_links"
       ELSE IF ContainsAny(lower, CrawlKeywords) THEN "crawl_website"
            ELSE "scrape_website"
  ELSE IF ContainsAny(lower, SearchKeywords) THEN "search_website"
       ELSE None

\* the fallback logic as it would be with the search keywords tested first
FallbackToolSearchFirst(lower) ==
  IF ContainsAny(lower, SearchKeywords) THEN "search_website"
  ELSE IF ContainsAny(lower, UrlKeywords)
       THEN IF ContainsAny(lower, CrawlKeywords) THEN "crawl_website"
            ELSE IF ContainsAny(lower, LinkKeywords) THEN "map_links"
                 ELSE "scrape_website"
       ELSE None

\* the default fallback logic of identify_tool
FallbackTool(lower) ==
  IF ContainsAny(lower, UrlKeywords)
  THEN IF ContainsAny(lower, CrawlKeywords) THEN "crawl_website"
       ELSE IF ContainsAny(lower, LinkKeywords) THEN "map_links"
            ELSE "scrape_website"
  ELSE IF ContainsAny(lower, SearchKeywords) THEN "search_website"
       ELSE None

RECURSIVE ReversedToolFrom(_, _, _)
\* the loop as it would be if the catalog were walked from its last item
ReversedToolFrom(catalog, k, lower) ==
  IF k > Len(catalog) THEN FallbackTool(lower)
  ELSE LET item == catalog[Len(catalog) + 1 - k]
       IN IF AnyPatternMatches(item.patterns, lower) THEN item.name
          ELSE ReversedToolFrom(catalog, k + 1, lower)

RECURSIVE FirstToolFrom(_, _, _)
\* the loop over self.tool_patterns.items(), from the k-th item on, and the
\* fallback logic that follows the loop
FirstToolFrom(catalog, k, lower) ==
  IF k > Len(catalog) THEN FallbackTool(lower)
  ELSE IF AnyPatternMatches(catalog[k].patterns, lower) THEN catalog[k].name
       ELSE FirstToolFrom(catalog, k + 1, lower)

identify_tool(catalog, user_input) ==
  FirstToolFrom(catalog, 1, Lower(user_input))

(***************************************************************************)
(* extract_parameters                                                      *)
(*                                                                         *)
(* An argument set is a function from argument names to tagged values:     *)
(* Python's str, int, bool and list are kept apart by the tag ty.          *)
(***************************************************************************)
StrV(str) == [ty |-> "str", v |-> str]
IntV(n) == [ty |-> "int", v |-> n]
BoolV(b) == [ty |-> "bool", v |-> b]
ListV(seq) == [ty |-> "list", v |-> seq]

EmptyParams == <<>>

\* params[key] = value
Put(params, key, value) ==
  [k \in DOMAIN params \cup {key} |-> IF k = key THEN value ELSE params[k]]

\* r'https?://[^\s<>"{}|\\^...\[\]]+'
url_pattern ==
  Cat(<<Lit("http"), Opt(Lit("s")), Lit("://"), Plus(Cls("url"))>>)

\* r'(?:limit|max|maximum|up to)\s*(\d+)', split around its group
LimitPre == Cat(<<OneOf(<<"limit", "max", "maximum", "up to">>), S0>>)

\* r'\b(\d+)\s*(?:pages?|links?|results?)', split around its group
NumberPost ==
  Cat(<<S0, Alt(<<Plural("page"), Plural("link"), Plural("result")>>)>>)

\* r'about\s+([^,.\n]+)', split around its group
AboutPre == Cat(<<Lit("about"), S1>>)

\* r'(?:depth|levels?)\s*(\d+)', split around its group
DepthPre == Cat(<<Alt(<<Lit("depth"), Plural("level")>>), S0>>)

\* r'(?:time|timeout|limit)\s*(\d+)\s*(?:seconds?|minutes?)', split around
\* its group
TimePre == Cat(<<OneOf(<<"time", "timeout", "limit">>), S0>>)
TimePost == Cat(<<S0, Alt(<<Plural("second"), Plural("minute")>>)>>)

CommandPhrases == <<"search for", "find", "look for", "search">>
PromptIndicators == <<"extract", "get", "find", "pull out">>
QueryIndicators == <<"research", "analyze", "analysis of", "study">>
MainContentPhrases == <<"main content", "only content", "no navigation">>

DefaultCrawlLimit == 10
DefaultSearchLimit == 10
DefaultMapLimit == 20
SecondsPerMinute == 60

\* the assignment as it would be with the last URL of the text
WithLastUrl(params, urls) ==
  IF urls # <<>> THEN Put(params, "url", StrV(urls[Len(urls)])) ELSE params

\* params['url'] = urls[0] when urls is not empty
WithUrl(params, urls) ==
  IF urls # <<>> THEN Put(params, "url", StrV(urls[1])) ELSE params

RECURSIVE StripPhrases(_, _)
\* the loop of re.sub(rf'\b{phrase}\b', '', query, flags=re.IGNORECASE)
StripPhrases(query, k) ==
  IF k > Len(CommandPhrases) THEN query
  ELSE StripPhrases(
         Sub(Cat(<<WordBoundary, LitI(CommandPhrases[k]), WordBoundary>>),
             query), k + 1)

RECURSIVE FirstIndicator(_, _, _)
\* the first entry of indicators[k..] that occurs in lower, 0 when none does
FirstIndicator(indicators, k, lower) ==
  IF k > Len(indicators) THEN 0
  ELSE IF Contains(lower, indicators[k]) THEN k
       ELSE FirstIndicator(indicators, k + 1, lower)

\* the format preference as it would be with json tested before html
ScrapeParamsJsonFirst(user_input, lower, urls) ==
  LET p1 == WithUrl(EmptyParams, urls)
      p2 == IF Contains(lower, "json")
            THEN Put(p1, "formats", ListV(<<"json">>))
            ELSE IF Contains(lower, "html")
                 THEN Put(p1, "formats", ListV(<<"html">>))
                 ELSE IF Contains(lower, "markdown") \/ Contains(lower, "md")
                      THEN Put(p1, "formats", ListV(<<"markdown">>))
                      ELSE p1
  IN IF ContainsAny(lower, MainContentPhrases)
     THEN Put(p2, "onlyMainContent", BoolV(TRUE)) ELSE p2

ScrapeParams(user_input, lower, urls) ==
  LET p1 == WithUrl(EmptyParams, urls)
      p2 == IF Contains(lower, "html")
            THEN Put(p1, "formats", ListV(<<"html">>))
            ELSE IF Contains(lower, "json")
                 THEN Put(p1, "formats", ListV(<<"json">>))
                 ELSE IF Contains(lower, "markdown") \/ Contains(lower, "md")
                      THEN Put(p1, "formats", ListV(<<"markdown">>))
                      ELSE p1
  IN IF ContainsAny(lower, MainContentPhrases)
     THEN Put(p2, "onlyMainContent", BoolV(TRUE)) ELSE p2

\* the limit as it would be with the group (\d) in place of (\d+)
CrawlLimitOneDigit(lower) ==
  IF Search(Cat(<<LimitPre, D1>>), lower)
  THEN ToInt(SearchGroup(LimitPre, Cls("digit"), Empty, lower))
  ELSE IF Search(Cat(<<WordBoundary, D1, NumberPost>>), lower)
       THEN ToInt(SearchGroup(WordBoundary, D1, NumberPost, lower))
       ELSE DefaultCrawlLimit

CrawlLimit(lower) ==
  IF Search(Cat(<<LimitPre, D1>>), lower)
  THEN ToInt(SearchGroup(LimitPre, D1, Empty, lower))
  ELSE IF Search(Cat(<<WordBoundary, D1, NumberPost>>), lower)
       THEN ToInt(SearchGroup(WordBoundary, D1, NumberPost, lower))
       ELSE DefaultCrawlLimit

CrawlParams(user_input, lower, urls) ==
  Put(WithUrl(EmptyParams, urls), "limit", IntV(CrawlLimit(lower)))

SearchLimit(lower) ==
  IF Search(Cat(<<LimitPre, D1>>), lower)
  THEN ToInt(SearchGroup(LimitPre, D1, Empty, lower))
  ELSE DefaultSearchLimit

\* the search arguments as they would be if an empty query were replaced by
\* the whole text
SearchParamsAutoCorrected(user_input, lower, urls) ==
  LET query == Strip(StripPhrases(user_input, 1))
  IN Put(Put(EmptyParams, "query",
             StrV(IF query = "" THEN user_input ELSE query)),
         "limit", IntV(SearchLimit(lower)))

SearchParams(user_input, lower, urls) ==
  Put(Put(EmptyParams, "query", StrV(Strip(StripPhrases(user_input, 1)))),
      "limit", IntV(SearchLimit(lower)))

\* the filter as it would be if the group ran to the end of the line
MapSearchToEndOfLine(lower) ==
  IF Contains(lower, "about") /\ Search(Cat(<<AboutPre, AnyRun>>), lower)
  THEN Strip(SearchGroup(AboutPre, AnyRun, Empty, lower))
  ELSE ""

MapSearch(lower) ==
  IF Contains(lower, "about")
     /\ Search(Cat(<<AboutPre, Plus(Cls("term"))>>), lower)
  THEN Strip(SearchGroup(AboutPre, Plus(Cls("term")), Empty, lower))
  ELSE ""

MapLimit(lower) ==
  IF Search(Cat(<<LimitPre, D1>>), lower)
  THEN ToInt(SearchGroup(LimitPre, D1, Empty, lower))
  ELSE DefaultMapLimit

MapParams(user_input, lower, urls) ==
  Put(Put(WithUrl(EmptyParams, urls), "search", StrV(MapSearch(lower))),
      "limit", IntV(MapLimit(lower)))

ExtractPrompt(user_input, lower) ==
  LET k == FirstIndicator(PromptIndicators, 1, lower)
  IN IF k = 0 THEN user_input
     ELSE SubSeq(user_input, Find(lower, PromptIndicators[k]) + 1,
                 Len(user_input))

ExtractParams(user_input, lower, urls) ==
  Put(Put(EmptyParams, "urls", ListV(urls)),
      "prompt", StrV(ExtractPrompt(user_input, lower)))

DeepQuery(user_input, lower) ==
  LET k == FirstIndicator(QueryIndicators, 1, lower)
  IN IF k = 0 THEN user_input
     ELSE Strip(SubSeq(user_input,
                       Find(lower, QueryIndicators[k])
                         + Len(QueryIndicators[k]) + 1,
                       Len(user_input)))

\* the time limit as it would be without the conversion of minutes
TimeLimitUnconverted(lower) ==
  ToInt(SearchGroup(TimePre, D1, TimePost, lower))

\* seconds = int(time_match.group(1)); if 'minute' in user_input_lower:
\* seconds *= 60
TimeLimit(lower) ==
  LET seconds == ToInt(SearchGroup(TimePre, D1, TimePost, lower))
  IN IF Contains(lower, "minute") THEN seconds * SecondsPerMinute
     ELSE seconds

DeepParams(user_input, lower, urls) ==
  LET p1 == Put(EmptyParams, "query", StrV(DeepQuery(user_input, lower)))
      p2 == IF Search(Cat(<<DepthPre, D1>>), lower)
            THEN Put(p1, "max_depth",
                     IntV(ToInt(SearchGroup(DepthPre, D1, Empty, lower))))
            ELSE p1
  IN IF Search(Cat(<<TimePre, D1, TimePost>>), lower)
     THEN Put(p2, "time_limit", IntV(TimeLimit(lower)))
     ELSE p2

extract_parameters(user_input, tool_name) ==
  LET user_input_lower == Lower(user_input)
      urls == FindAll(url_pattern, user_input)
  IN CASE tool_name = "scrape_website" ->
            ScrapeParams(user_input, user_input_lower, urls)
       [] tool_name = "crawl_website" ->
            CrawlParams(user_input, user_input_lower, urls)
       [] tool_name = "search_website" ->
            SearchParams(user_input, user_input_lower, urls)
       [] tool_name = "map_links" ->
            MapParams(user_input, user_input_lower, urls)
       [] tool_name = "extract_content" ->
            ExtractParams(user_input, user_input_lower, urls)
       [] tool_name = "deep_analysis" ->
            DeepParams(user_input, user_input_lower, urls)
       [] OTHER -> EmptyParams

(***************************************************************************)
(* _validate_parameters                                                    *)
(***************************************************************************)
\* the required lists as they would be with search optional for map_links
required_paramsFilterOptional ==
  ("scrape_website" :> <<"url">>) @@
  ("crawl_website" :> <<"url", "limit">>) @@
  ("search_website" :> <<"query", "limit">>) @@
  ("map_links" :> <<"url", "limit">>) @@
  ("extract_content" :> <<"urls", "prompt">>) @@
  ("deep_analysis" :> <<"query">>)

required_params ==
  ("scrape_website" :> <<"url">>) @@
  ("crawl_website" :> <<"url", "limit">>) @@
  ("search_website" :> <<"query", "limit">>) @@
  ("map_links" :> <<"url", "limit", "search">>) @@
  ("extract_content" :> <<"urls", "prompt">>) @@
  ("deep_analysis" :> <<"query">>)

\* bool(value)
Truthy(value) ==
  CASE value.ty = "str" -> value.v # ""
    [] value.ty = "int" -> value.v # 0
    [] value.ty = "bool" -> value.v
    [] value.ty = "list" -> value.v # <<>>

_validate_parameters(tool_name, params) ==
  IF tool_name \notin DOMAIN required_params THEN FALSE
  ELSE \A k \in 1..Len(required_params[tool_name]) :
         LET param == required_params[tool_name][k]
         IN param \in DOMAIN params /\ Truthy(params[param])

(***************************************************************************)
(* The requests                                                            *)
(*                                                                         *)
(* A request text is a sequence of at most n phrases of a vocabulary,      *)
(* joined by single blanks.                                                *)
(***************************************************************************)
MaxSelectPhrases == 2
MaxLimitPhrases == 2
MaxTimePhrases == 2
MaxSearchPhrases == 2
MaxUrlPhrases == 2
MaxFormatPhrases == 2
MaxExtractPhrases == 2

RECURSIVE Join(_, _)
Join(phrases, k) ==
  IF k > Len(phrases) THEN ""
  ELSE IF k = Len(phrases) THEN phrases[k]
       ELSE phrases[k] \o " " \o Join(phrases, k + 1)

Texts(vocabulary, n) ==
  {Join(phrases, 1) : phrases \in UNION {[1..k -> vocabulary] : k \in 1..n}}

\* requests that name operations, URLs and the keywords of the fallback logic
SelectVocabulary ==
  {"scrape site", "crawl the website", "web search", "find links",
   "extract data from page", "deep research", "www.b.org", "pages",
   "pages and links", "map"}

\* requests with limits
LimitVocabulary ==
  {"Crawl the website", "search the web for", "find all links on",
   "scrape the page", "https://a.com", "limit 5", "limit 0", "3 pages",
   "7 results", "about cats"}

\* research requests with depths and time limits
TimeVocabulary ==
  {"research on", "research on last minute deals", "ai", "timeout 2 minutes",
   "limit 30 seconds", "time 5 second", "depth 3"}

\* search requests made of command phrases
SearchVocabulary ==
  {"search", "find", "Search For", "look for", "web search", "rust",
   "limit 5"}

\* requests with URLs in several places and letter cases
UrlVocabulary ==
  {"https://A.com/Path", "http://b.org", "https://", "see", "find", "crawl",
   "links"}

\* page requests with format and main-content preferences
FormatVocabulary ==
  {"https://a.com", "json or html", "markdown or json", "markdown", "md",
   "main content", "Only Content", "no navigation"}

\* structured-extraction requests
ExtractVocabulary ==
  {"get specific data", "extract information", "pull out prices",
   "parse data from", "Find", "https://a.com", "http://b.org"}

\* the examples of the documentation
ExampleTexts ==
  {"crawl https://example.com limit 15 pages",
   "search for rust async runtimes limit 5",
   "map links about pricing on https://site.io limit 30",
   "research on quantum computing depth 3 timeout 2 minutes"}

RequestTexts ==
  Texts(SelectVocabulary, MaxSelectPhrases)
    \cup Texts(LimitVocabulary, MaxLimitPhrases)
    \cup Texts(TimeVocabulary, MaxTimePhrases)
    \cup Texts(SearchVocabulary, MaxSearchPhrases)
    \cup Texts(UrlVocabulary, MaxUrlPhrases)
    \cup Texts(FormatVocabulary, MaxFormatPhrases)
    \cup Texts(ExtractVocabulary, MaxExtractPhrases)
    \cup ExampleTexts

\* what a tool's _run and the agent's run can do: return a text or raise
ToolReturns == {"{\"success\": true}", "{\"error\": \"timeout\"}"}
AgentReturns == {"a free-form answer"}
ExceptionMessages == {"connection refused"}

(***************************************************************************)
(* The agent's state                                                       *)
(***************************************************************************)
VARIABLES
  tool_patterns,  \* self.tool_patterns
  tools,          \* the names of self.tools
  pc,             \* the position of process_request
  user_input,     \* the argument of process_request
  tool_name,      \* its local tool_name
  params,         \* its local params
  valid,          \* what _validate_parameters returned
  result,         \* what process_request returned
  calls,          \* the calls process_request made for this request
  fn,             \* the last call of a tool function of firecrawl_fapi
  previous,       \* an earlier request of the session and what it yielded
  chat_history,   \* st.session_state.chat_history of the Streamlit page
  handler,        \* the position of the page's chat handler
  output_text,    \* its local output_text
  llm_output,     \* its local llm_output
  clean_data,     \* its local clean_data
  final_llm_response,  \* its local final_llm_response
  uncaught        \* the exception that ended the last run of the script

vars ==
  <<tool_patterns, tools, pc, user_input, tool_name, params, valid, result,
    calls, fn, previous, chat_history, handler, output_text, llm_output,
    clean_data, final_llm_response, uncaught>>

\* the state of the Streamlit page
streamVars ==
  <<chat_history, handler, output_text, llm_output, clean_data,
    final_llm_response, uncaught>>

NoResult == [kind |-> "none"]
NoCall == [name |-> "none"]
NoRequest == [text |-> None]
NoOutput == [kind |-> "none"]
NoData == <<>>

\* st.session_state.chat_history = [] and a script run that waits at
\* st.chat_input
InitStream ==
  /\ chat_history = <<>>
  /\ handler = "chat_input"
  /\ output_text = NoOutput
  /\ llm_output = NoData
  /\ clean_data = NoData
  /\ final_llm_response = None
  /\ uncaught = None

\* get_firecrawl_tools(): one tool per operation of the catalog
FirecrawlTools == ToolNames

Init ==
  /\ tool_patterns = ToolPatterns
  /\ tools = FirecrawlTools
  /\ pc = "idle"
  /\ user_input = ""
  /\ tool_name = None
  /\ params = EmptyParams
  /\ valid = FALSE
  /\ result = NoResult
  /\ calls = <<>>
  /\ fn = NoCall
  /\ previous = NoRequest
  /\ InitStream

Called(op) == \E k \in 1..Len(calls) : calls[k].op = op

(***************************************************************************)
(* process_request, one action per step                                    *)
(***************************************************************************)
\* if tool_name: ... else: return self.agent.run(user_input)
AfterIdentify(name) == IF name # None THEN "extract" ELSE "fallback"

\* the dispatch as it would be without the test of the validator's answer
AfterValidateUngated(ok) == "run_tool"

\* if self._validate_parameters(tool_name, params): ... else: agent.run
AfterValidate(ok) == IF ok THEN "run_tool" ELSE "fallback"

\* return f"Tool: {tool_name}\nParameters: {...}\nResult: {result}"
ToolResult(name, args, output) ==
  [kind |-> "tool", tool |-> name, params |-> args, text |-> output]

\* return self.agent.run(user_input)
FallbackResult(answer) == [kind |-> "fallback", text |-> answer]

\* process_request as it would be without its except clause
UncaughtError(message) == [kind |-> "raised", text |-> message]

\* except Exception as e: return f"Error processing request: {str(e)}"
ErrorResult(message) ==
  [kind |-> "error", text |-> "Error processing request: " \o message]

\* return f"Tool '{tool_name}' not found. Available tools: {...}"
NotFoundResult(name) ==
  [kind |-> "not_found", text |-> "Tool '" \o name \o "' not found."]

\* the main loop calls agent.process_request(user_input) with one of the
\* texts
ReceiveFrom(texts) ==
  /\ pc = "idle"
  /\ pc' = "identify"
  /\ \E text \in texts : user_input' = text
  /\ tool_name' = None
  /\ params' = EmptyParams
  /\ valid' = FALSE
  /\ result' = NoResult
  /\ calls' = <<>>
  /\ UNCHANGED <<tool_patterns, tools, fn, previous,
                 streamVars>>

Receive == ReceiveFrom(RequestTexts)

RECURSIVE Without(_, _, _)
\* the items of the catalog from the k-th on, without the operation
Without(catalog, name, k) ==
  IF k > Len(catalog) THEN <<>>
  ELSE IF catalog[k].name = name THEN Without(catalog, name, k + 1)
       ELSE <<catalog[k]>> \o Without(catalog, name, k + 1)

\* the catalog with the operation's item moved to the front
MovedToFront(catalog, name) ==
  IF name = None THEN catalog
  ELSE LET k == CHOOSE j \in 1..Len(catalog) : catalog[j].name = name
       IN <<catalog[k]>> \o Without(catalog, name, 1)

\* identify_tool as it would be if it moved the operation it returns to the
\* front of self.tool_patterns
IdentifyToolReordering ==
  /\ pc = "identify"
  /\ tool_name' = identify_tool(tool_patterns, user_input)
  /\ tool_patterns' = MovedToFront(tool_patterns, tool_name')
  /\ pc' = AfterIdentify(tool_name')
  /\ calls' = Append(calls, [op |-> "identify_tool"])
  /\ UNCHANGED <<tools, user_input, params, valid, result, fn, previous,
                 streamVars>>

\* tool_name = self.identify_tool(user_input)
IdentifyTool ==
  /\ pc = "identify"
  /\ tool_name' = identify_tool(tool_patterns, user_input)
  /\ pc' = AfterIdentify(tool_name')
  /\ calls' = Append(calls, [op |-> "identify_tool"])
  /\ UNCHANGED <<tool_patterns, tools, user_input, params, valid, result, fn,
                 previous,
                 streamVars>>

\* params = self.extract_parameters(user_input, tool_name)
ExtractParameters ==
  /\ pc = "extract"
  /\ params' = extract_parameters(user_input, tool_name)
  /\ pc' = "validate"
  /\ calls' = Append(calls, [op |-> "extract_parameters"])
  /\ UNCHANGED <<tool_patterns, tools, user_input, tool_name, valid, result,
                 fn, previous,
                 streamVars>>

\* the lookup of selected_tool in self.tools and the call of
\* self._validate_parameters(tool_name, params)
ValidateParameters ==
  /\ pc = "validate"
  /\ IF tool_name \in tools
     THEN /\ valid' = _validate_parameters(tool_name, params)
          /\ pc' = AfterValidate(valid')
          /\ calls' = Append(calls, [op |-> "_validate_parameters"])
          /\ UNCHANGED result
     ELSE /\ result' = NotFoundResult(tool_name)
          /\ pc' = "done"
          /\ UNCHANGED <<valid, calls>>
  /\ UNCHANGED <<tool_patterns, tools, user_input, tool_name, params, fn,
                 previous,
                 streamVars>>

\* result = selected_tool._run(**params), which returns
RunToolReturns(output) ==
  /\ pc = "run_tool"
  /\ result' = ToolResult(tool_name, params, output)
  /\ pc' = "done"
  /\ calls' = Append(calls, [op |-> "_run", tool |-> tool_name,
                             args |-> params])
  /\ UNCHANGED <<tool_patterns, tools, user_input, tool_name, params, valid,
                 fn, previous,
                 streamVars>>

\* the dispatch as it would be if a failed tool were followed by the agent
RunToolRaisesThenAgent(message) ==
  /\ pc = "run_tool"
  /\ pc' = "fallback"
  /\ calls' = Append(calls, [op |-> "_run", tool |-> tool_name,
                             args |-> params])
  /\ UNCHANGED <<tool_patterns, tools, user_input, tool_name, params, valid,
                 result, fn, previous,
                 streamVars>>

\* result = selected_tool._run(**params), which raises
RunToolRaises(message) ==
  /\ pc = "run_tool"
  /\ result' = ErrorResult(message)
  /\ pc' = "done"
  /\ calls' = Append(calls, [op |-> "_run", tool |-> tool_name,
                             args |-> params])
  /\ UNCHANGED <<tool_patterns, tools, user_input, tool_name, params, valid,
                 fn, previous,
                 streamVars>>

\* return self.agent.run(user_input), which returns
AgentRunReturns(answer) ==
  /\ pc = "fallback"
  /\ result' = FallbackResult(answer)
  /\ pc' = "done"
  /\ calls' = Append(calls, [op |-> "agent.run", text |-> user_input])
  /\ UNCHANGED <<tool_patterns, tools, user_input, tool_name, params, valid,
                 fn, previous,
                 streamVars>>

\* return self.agent.run(user_input), which raises
AgentRunRaises(message) ==
  /\ pc = "fallback"
  /\ result' = ErrorResult(message)
  /\ pc' = "done"
  /\ calls' = Append(calls, [op |-> "agent.run", text |-> user_input])
  /\ UNCHANGED <<tool_patterns, tools, user_input, tool_name, params, valid,
                 fn, previous,
                 streamVars>>

\* the locals of process_request after it has returned
Return ==
  /\ pc = "done"
  /\ pc' = "idle"
  /\ user_input' = ""
  /\ tool_name' = None
  /\ params' = EmptyParams
  /\ valid' = FALSE
  /\ result' = NoResult
  /\ calls' = <<>>
  /\ UNCHANGED <<tool_patterns, tools, fn, streamVars>>

\* print(f"Agent: {response}") and the next turn of the main loop
PrintResponse == Return /\ UNCHANGED previous

Next ==
  \/ Receive
  \/ IdentifyTool
  \/ ExtractParameters
  \/ ValidateParameters
  \/ \E output \in ToolReturns : RunToolReturns(output)
  \/ \E message \in ExceptionMessages : RunToolRaises(message)
  \/ \E answer \in AgentReturns : AgentRunReturns(answer)
  \/ \E message \in ExceptionMessages : AgentRunRaises(message)
  \/ PrintResponse

Spec == Init /\ [][Next]_vars

(***************************************************************************)
(* A session that repeats requests                                         *)
(*                                                                         *)
(* The main loop serves a few texts again and again, and the text of one   *)
(* earlier request is kept with the operation and the argument set it      *)
(* yielded.                                                                *)
(***************************************************************************)
RepeatTexts ==
  ExampleTexts
    \cup {"crawl the website find links", "find links",
          "www.b.org pages and links", "https://a.com limit 0"}

ReceiveAgain == ReceiveFrom(RepeatTexts)

\* the request just served becomes the earlier request that is kept
Remember ==
  /\ Return
  /\ previous' = [text |-> user_input, tool_name |-> tool_name,
                  params |-> params]

NextRepeat ==
  \/ ReceiveAgain
  \/ IdentifyTool
  \/ ExtractParameters
  \/ ValidateParameters
  \/ \E output \in ToolReturns : RunToolReturns(output)
  \/ \E message \in ExceptionMessages : RunToolRaises(message)
  \/ \E answer \in AgentReturns : AgentRunReturns(answer)
  \/ \E message \in ExceptionMessages : AgentRunRaises(message)
  \/ PrintResponse
  \/ Remember

SpecRepeat == Init /\ [][NextRepeat]_vars

(***************************************************************************)
(* _validate_parameters called on its own                                  *)
(*                                                                         *)
(* The static method is applied to an operation name and an argument set   *)
(* in which each argument is absent, empty (zero for limit) or filled.     *)
(***************************************************************************)
ValidatorNames == ToolNames \cup {"summarize_page"}

ArgumentNames == {"url", "limit", "query", "search", "urls", "prompt"}

EmptyValue ==
  ("url" :> StrV("")) @@ ("limit" :> IntV(0)) @@ ("query" :> StrV("")) @@
  ("search" :> StrV("")) @@ ("urls" :> ListV(<<>>)) @@ ("prompt" :> StrV(""))

FilledValue ==
  ("url" :> StrV("https://a.com")) @@ ("limit" :> IntV(10)) @@
  ("query" :> StrV("rust")) @@ ("search" :> StrV("cats")) @@
  ("urls" :> ListV(<<"https://a.com">>)) @@ ("prompt" :> StrV("get prices"))

ArgumentSetOf(choice) ==
  [k \in {n \in ArgumentNames : choice[n] # "absent"} |->
     IF choice[k] = "empty" THEN EmptyValue[k] ELSE FilledValue[k]]

ArgumentSets ==
  {ArgumentSetOf(choice) :
     choice \in [ArgumentNames -> {"absent", "empty", "filled"}]}

InitValidator ==
  /\ tool_patterns = ToolPatterns
  /\ tools = FirecrawlTools
  /\ pc = "validate_call"
  /\ user_input = ""
  /\ tool_name \in ValidatorNames
  /\ params \in ArgumentSets
  /\ valid = FALSE
  /\ result = NoResult
  /\ calls = <<>>
  /\ fn = NoCall
  /\ previous = NoRequest
  /\ InitStream

\* FirecrawlAgent._validate_parameters(tool_name, params)
ValidateCall ==
  /\ pc = "validate_call"
  /\ valid' = _validate_parameters(tool_name, params)
  /\ pc' = "validate_return"
  /\ UNCHANGED <<tool_patterns, tools, user_input, tool_name, params, result,
                 calls, fn, previous,
                 streamVars>>

NextValidator == ValidateCall

SpecValidator == InitValidator /\ [][NextValidator]_vars

(***************************************************************************)
(* The tool functions of firecrawl_fapi                                    *)
(*                                                                         *)
(* Each function calls one method of the Firecrawl client and serialises   *)
(* the response inside a try block.  The client returns a response,        *)
(* returns a response that cannot be serialised, or raises.                *)
(***************************************************************************)
Urls == {"https://a.com", "https://b.org"}
Limits == {1, 10}
Queries == {"rust", "cats"}
Responses == {"page", "report"}
FailureMessages == {"connection refused", "401 unauthorized"}
SerialisationError == "Object is not JSON serializable"

RemoteOutcomes ==
  {[kind |-> "response", doc |-> d] : d \in Responses}
    \cup {[kind |-> "unserialisable"]}
    \cup {[kind |-> "raise", message |-> m] : m \in FailureMessages}

\* the argument models ScrapWebsite, CrawlWebsite, SearchWebsite, MapUrls,
\* ExtractContent and DeepResearch
ToolArguments(name) ==
  CASE name = "scrape_website" ->
         {[url |-> u, formats |-> f, onlyMainContent |-> m] :
            u \in Urls, f \in {<<"markdown">>, <<"html">>}, m \in BOOLEAN}
    [] name = "crawl_website" ->
         {[url |-> u, limit |-> l, formats |-> <<"markdown">>] :
            u \in Urls, l \in Limits}
    [] name = "search_website" ->
         {[query |-> q, limit |-> l, formats |-> <<"markdown">>] :
            q \in Queries, l \in Limits}
    [] name = "map_links" ->
         {[url |-> u, limit |-> l, search |-> q] :
            u \in Urls, l \in Limits, q \in Queries \cup {""}}
    [] name = "extract_content" ->
         {[urls |-> <<u>>, prompt |-> q] : u \in Urls, q \in Queries}
    [] name = "deep_analysis" ->
         {[query |-> q, max_depth |-> 7, time_limit |-> 270] : q \in Queries}

\* json.dumps(...) and model_dump_json(): a JSON text
JsonText(value) == [ty |-> "json", v |-> value]

\* model_dump(): a dict
Dict(value) == [ty |-> "dict", v |-> value]

\* return scrap.model_dump() in scrape_website, return x.model_dump_json()
\* or json.dumps(x) in the other functions
Serialise(name, doc) ==
  IF name = "scrape_website" THEN Dict([data |-> doc])
  ELSE JsonText([data |-> doc])

Returned(value) == [status |-> "returned", value |-> value]

\* an exception that leaves the function
Raised(message) == [status |-> "raised", message |-> message]

\* deep_analysis as it would be if json.dumps(research_result) and the call
\* before it stood outside the try block
ExceptHandlerNotInDeepAnalysis(name, message) ==
  IF name = "deep_analysis" THEN Raised(message)
  ELSE Returned(JsonText([error |-> message]))

\* except Exception as e: return json.dumps({"error": str(e)}, indent=2)
ExceptHandler(name, message) == Returned(JsonText([error |-> message]))

\* the body of a tool function: try: x = app.method(...); return dump(x)
ToolFunction(name, remote) ==
  CASE remote.kind = "raise" -> ExceptHandler(name, remote.message)
    [] remote.kind = "unserialisable" -> ExceptHandler(name, SerialisationError)
    [] remote.kind = "response" -> Returned(Serialise(name, remote.doc))

\* the record of one call of a tool function
Invocation(name, args, remote) ==
  [name |-> name, args |-> args, remote |-> remote,
   outcome |-> ToolFunction(name, remote)]

agentVars ==
  <<tool_patterns, tools, pc, user_input, tool_name, params, valid, result,
    calls, previous>>

scrape_website ==
  /\ \E args \in ToolArguments("scrape_website"), remote \in RemoteOutcomes :
       fn' = Invocation("scrape_website", args, remote)
  /\ UNCHANGED <<agentVars, streamVars>>

crawl_website ==
  /\ \E args \in ToolArguments("crawl_website"), remote \in RemoteOutcomes :
       fn' = Invocation("crawl_website", args, remote)
  /\ UNCHANGED <<agentVars, streamVars>>

search_website ==
  /\ \E args \in ToolArguments("search_website"), remote \in RemoteOutcomes :
       fn' = Invocation("search_website", args, remote)
  /\ UNCHANGED <<agentVars, streamVars>>

map_links ==
  /\ \E args \in ToolArguments("map_links"), remote \in RemoteOutcomes :
       fn' = Invocation("map_links", args, remote)
  /\ UNCHANGED <<agentVars, streamVars>>

extract_content ==
  /\ \E args \in ToolArguments("extract_content"), remote \in RemoteOutcomes :
       fn' = Invocation("extract_content", args, remote)
  /\ UNCHANGED <<agentVars, streamVars>>

deep_analysis ==
  /\ \E args \in ToolArguments("deep_analysis"), remote \in RemoteOutcomes :
       fn' = Invocation("deep_analysis", args, remote)
  /\ UNCHANGED <<agentVars, streamVars>>

NextTools ==
  \/ scrape_website
  \/ crawl_website
  \/ search_website
  \/ map_links
  \/ extract_content
  \/ deep_analysis

SpecTools == Init /\ [][NextTools]_vars

(***************************************************************************)
(* The Streamlit page of firestream.py                                     *)
(*                                                                         *)
(* A prompt is turned into a tool call by the parse chain, the call is     *)
(* dispatched by process_user_prompt, and the tool's output is cleaned,    *)
(* formatted and appended to the chat history.  An exception that no       *)
(* try block catches ends the run of the script; the session, with its     *)
(* chat history, goes on with the next prompt.                             *)
(***************************************************************************)
\* the number of prompts of a session
MaxPrompts == 2

Prompts == {"find rust news"}

\* tool_schemas: the argument model of each tool name
tool_schemas ==
  ("crawl_website" :> "CrawlWebsite") @@
  ("scrap_website" :> "ScrapWebsite") @@
  ("search_website" :> "SearchWebsite") @@
  ("map_links" :> "MapUrls") @@
  ("extract_content" :> "ExtractContent") @@
  ("deep_analysis" :> "DeepResearch")

\* tool_parsers: a PydanticOutputParser of the model for each name of
\* tool_schemas
tool_parsers ==
  [name \in DOMAIN tool_schemas |-> [pydantic_object |-> tool_schemas[name]]]

\* tool_mapping: the tool function of each tool name
tool_mapping ==
  ("scrape_website" :> "scrape_website") @@
  ("crawl_website" :> "crawl_website") @@
  ("search_website" :> "search_website") @@
  ("map_links" :> "map_links") @@
  ("extract_content" :> "extract_content") @@
  ("deep_analysis" :> "deep_analysis")

\* response.content of the parse chain: a text that is not the JSON asked
\* for, or a tool call whose params fit one of the argument models or none
NotJson == [kind |-> "text"]
ToolCall(name, model) ==
  [kind |-> "tool_call", tool_name |-> name, params |-> model]

ArgumentModels ==
  {tool_schemas[name] : name \in DOMAIN tool_schemas} \cup {"none"}

OutputTexts ==
  {NotJson}
    \cup {ToolCall(name, model) :
            name \in DOMAIN tool_schemas \cup DOMAIN tool_mapping,
            model \in ArgumentModels}

\* what the Firecrawl client hands to the tool function: a list of items, an
\* object, or an exception
List(items) == [ty |-> "list", v |-> items]
Object(fields) == [ty |-> "dict", v |-> fields]

PageItems ==
  <<("title" :> "Rust news Sponsored") @@ ("description" :> " 3 of 5 bubbles")
      @@ ("url" :> "https://a.com"),
    ("url" :> "https://b.org")>>

PageOutcomes ==
  {[kind |-> "response", doc |-> List(PageItems)],
   [kind |-> "response", doc |-> Object("markdown" :> "Rust news")],
   [kind |-> "raise", message |-> "connection refused"]}

FormatterAnswers == {"### Top Results"}
LlmFailures == {"429 quota exceeded"}

KeyError(key) == "KeyError: '" \o key \o "'"

\* try: json.loads(tool_output) except Exception: tool_output; a JSON text
\* is loaded, a dict makes json.loads raise and is kept as it is
LoadsOrRaw(tool_output) ==
  CASE tool_output.ty = "json" -> tool_output.v
    [] tool_output.ty = "dict" -> tool_output.v

\* process_user_prompt(json_text), with what the Firecrawl client does
process_user_prompt(json_text, remote) ==
  IF json_text.kind # "tool_call" THEN Raised("OutputParserException")
  ELSE IF json_text.tool_name \notin DOMAIN tool_parsers
       THEN Raised(KeyError(json_text.tool_name))
  ELSE IF tool_parsers[json_text.tool_name].pydantic_object
            # json_text.params
       THEN Raised("ValidationError")
  ELSE IF json_text.tool_name \notin DOMAIN tool_mapping
       THEN Raised(KeyError(json_text.tool_name))
  ELSE LET tool_output ==
             ToolFunction(tool_mapping[json_text.tool_name], remote)
       IN IF tool_output.status = "raised" THEN tool_output
          ELSE Returned(LoadsOrRaw(tool_output.value))

\* item.get(key, default)
Get(item, key, default) == IF key \in DOMAIN item THEN item[key] ELSE default

\* clean_text: the three substitutions, ignoring case, and strip()
clean_text(text) ==
  Strip(Sub(Cat(<<D1, LitI(" of "), D1, LitI(" bubbles")>>),
            Sub(Cat(<<WordBoundary, LitI("sponsored"), WordBoundary>>),
                Sub(Cat(<<LitI("sv"), Plus(LitI("g")), LitI("xml")>>),
                    text))))

CleanItem(item) ==
  [title |-> clean_text(Get(item, "title", "Untitled")),
   description |-> clean_text(Get(item, "description", "")),
   url |-> Get(item, "url", "")]

\* clean_web_output(data) for a dict: the items under "data" or "results",
\* or the dict itself as the only item; iterating an object yields its keys,
\* and item.get on a key raises
clean_web_output(data) ==
  LET items == IF "data" \in DOMAIN data THEN data["data"]
               ELSE IF "results" \in DOMAIN data THEN data["results"]
                    ELSE List(<<data>>)
  IN IF items.ty = "list"
     THEN Returned([k \in 1..Len(items.v) |-> CleanItem(items.v[k])])
     ELSE Raised("AttributeError: 'str' object has no attribute 'get'")

\* gemini_llm_response: the formatter's answer, or the message of its except
\* clause
FormatError(message) == "Error formatting complex response: " \o message

Entry(role, content) == [role |-> role, content |-> content]

UserEntries ==
  Cardinality({k \in 1..Len(chat_history) : chat_history[k].role = "user"})

\* an exception that nothing catches ends the run of the script
Stop(message) ==
  /\ handler' = "chat_input"
  /\ uncaught' = message

\* if prompt := st.chat_input(...): the user message is written and appended
ChatInput ==
  /\ handler = "chat_input"
  /\ UserEntries < MaxPrompts
  /\ \E prompt \in Prompts :
       chat_history' = Append(chat_history, Entry("user", prompt))
  /\ handler' = "chain"
  /\ output_text' = NoOutput
  /\ llm_output' = NoData
  /\ clean_data' = NoData
  /\ final_llm_response' = None
  /\ uncaught' = None
  /\ UNCHANGED <<agentVars, fn>>

\* response = chain.invoke({"user_input": prompt}), which returns
ChainReturns(text) ==
  /\ handler = "chain"
  /\ output_text' = text
  /\ handler' = "process_user_prompt"
  /\ UNCHANGED <<agentVars, fn, chat_history, llm_output, clean_data,
                 final_llm_response, uncaught>>

\* response = chain.invoke({"user_input": prompt}), which raises
ChainRaises(message) ==
  /\ handler = "chain"
  /\ Stop(message)
  /\ UNCHANGED <<agentVars, fn, chat_history, output_text, llm_output,
                 clean_data, final_llm_response>>

\* llm_output = process_user_prompt(output_text)
ProcessUserPrompt(remote) ==
  /\ handler = "process_user_prompt"
  /\ LET outcome == process_user_prompt(output_text, remote)
     IN IF outcome.status = "raised"
        THEN Stop(outcome.message) /\ UNCHANGED llm_output
        ELSE /\ llm_output' = outcome.value
             /\ handler' = "clean_web_output"
             /\ UNCHANGED uncaught
  /\ UNCHANGED <<agentVars, fn, chat_history, output_text, clean_data,
                 final_llm_response>>

\* clean_data = clean_web_output(llm_output)
CleanWebOutput ==
  /\ handler = "clean_web_output"
  /\ LET outcome == clean_web_output(llm_output)
     IN IF outcome.status = "raised"
        THEN Stop(outcome.message) /\ UNCHANGED clean_data
        ELSE /\ clean_data' = outcome.value
             /\ handler' = "gemini_llm_response"
             /\ UNCHANGED uncaught
  /\ UNCHANGED <<agentVars, fn, chat_history, output_text, llm_output,
                 final_llm_response>>

\* final_llm_response = gemini_llm_response(clean_data), llm.invoke returns
FormatReturns(answer) ==
  /\ handler = "gemini_llm_response"
  /\ final_llm_response' = answer
  /\ handler' = "chat_message"
  /\ UNCHANGED <<agentVars, fn, chat_history, output_text, llm_output,
                 clean_data, uncaught>>

\* final_llm_response = gemini_llm_response(clean_data), llm.invoke raises
FormatRaises(message) ==
  /\ handler = "gemini_llm_response"
  /\ final_llm_response' = FormatError(message)
  /\ handler' = "chat_message"
  /\ UNCHANGED <<agentVars, fn, chat_history, output_text, llm_output,
                 clean_data, uncaught>>

\* with st.chat_message("assistant"): the response is written and appended
ChatMessage ==
  /\ handler = "chat_message"
  /\ chat_history' =
       Append(chat_history, Entry("assistant", final_llm_response))
  /\ handler' = "chat_input"
  /\ UNCHANGED <<agentVars, fn, output_text, llm_output, clean_data,
                 final_llm_response, uncaught>>

NextStream ==
  \/ ChatInput
  \/ \E text \in OutputTexts : ChainReturns(text)
  \/ \E message \in LlmFailures : ChainRaises(message)
  \/ \E remote \in PageOutcomes : ProcessUserPrompt(remote)
  \/ CleanWebOutput
  \/ \E answer \in FormatterAnswers : FormatReturns(answer)
  \/ \E message \in LlmFailures : FormatRaises(message)
  \/ ChatMessage

SpecStream == Init /\ [][NextStream]_vars

(***************************************************************************)
(* Properties                                                              *)
(***************************************************************************)
AfterExtraction ==
  tool_name # None /\ pc \in {"validate", "run_tool", "fallback", "done"}
AfterValidation == tool_name # None /\ pc \in {"run_tool", "fallback", "done"}

LastCall == calls[Len(calls)]

\* C1: the tool is invoked only when identify_tool returned an operation and
\* _validate_parameters accepted the extracted argument set; when
\* identify_tool returned None or the validator rejected the argument set, a
\* finished request has not invoked the tool and has run the agent on the
\* full original text.  The two functions are computed anew on the text at
\* the two places where the dispatch is decided (before _run and before
\* agent.run); the later states are tied to that decision by the call log.
C1_DispatchGated ==
  LET selected == identify_tool(ToolPatterns, user_input)
      extracted == extract_parameters(user_input, selected)
      accepted == selected # None /\ _validate_parameters(selected, extracted)
      gate == tool_name # None /\ Called("_validate_parameters") /\ valid
  IN /\ pc = "run_tool" =>
          accepted /\ gate /\ tool_name = selected /\ params = extracted
     /\ pc = "fallback" => ~accepted /\ ~gate
     /\ Called("_run") =>
          /\ gate
          /\ LastCall = [op |-> "_run", tool |-> tool_name, args |-> params]
     /\ (pc = "done" /\ ~gate) =>
          /\ ~Called("_run")
          /\ LastCall = [op |-> "agent.run", text |-> user_input]

\* a request whose argument set was accepted and whose tool has run
C1_Witness ==
  /\ pc = "done"
  /\ Called("_validate_parameters")
  /\ valid
  /\ Called("_run")
  /\ result.kind = "tool"

CatalogOrder ==
  <<"scrape_website", "crawl_website", "search_website", "map_links",
    "extract_content", "deep_analysis">>

\* some pattern rule of the operation matches the lower-cased text
RuleMatches(name, lower) ==
  \E k \in 1..Len(ToolPatterns) :
    /\ ToolPatterns[k].name = name
    /\ AnyPatternMatches(ToolPatterns[k].patterns, lower)

MatchingOperations(text) ==
  LET lower == Lower(text)
  IN {k \in 1..Len(CatalogOrder) : RuleMatches(CatalogOrder[k], lower)}

\* identify_tool has just returned: to extract_parameters with an operation,
\* or to the agent with None
Identified ==
  \/ pc = "extract"
  \/ pc = "fallback" /\ tool_name = None

\* the operation is the first of the catalog order among the matching ones
FirstOf(matching, name) ==
  \E k \in matching :
    /\ \A j \in matching : k <= j
    /\ name = CatalogOrder[k]

\* C2: if at least one pattern rule matches the lower-cased text, identify_tool
\* returns the first operation in the declared catalog order that has a
\* matching rule, whichever later operations match as well.
C2_CatalogOrder ==
  Identified =>
    LET matching == MatchingOperations(user_input)
    IN matching # {} => FirstOf(matching, tool_name)

\* a text that rules of two operations match, resolved to the earlier one
C2_Witness ==
  /\ pc = "extract"
  /\ tool_name = "crawl_website"
  /\ {2, 4} \subseteq MatchingOperations(user_input)

\* C3: when no catalog rule matches, identify_tool returns crawl_website for
\* a URL-like text with a crawl keyword, else map_links for a URL-like text
\* with a link keyword, else scrape_website for a URL-like text, else
\* search_website for a text with 'search' or 'find', and None otherwise.
C3_FallbackPriority ==
  LET lower == Lower(user_input)
      url == ContainsAny(lower, <<"http", "www", ".com", ".org", ".net">>)
      crawl == ContainsAny(lower, <<"crawl", "multiple", "pages", "limit">>)
      links == ContainsAny(lower, <<"links", "map", "discover">>)
      search == ContainsAny(lower, <<"search", "find">>)
  IN (Identified /\ MatchingOperations(user_input) = {}) =>
       /\ (url /\ crawl) => tool_name = "crawl_website"
       /\ (url /\ ~crawl /\ links) => tool_name = "map_links"
       /\ (url /\ ~crawl /\ ~links) => tool_name = "scrape_website"
       /\ (~url /\ search) => tool_name = "search_website"
       /\ (~url /\ ~search) => tool_name = None /\ pc = "fallback"

\* a URL-like text with a crawl keyword and a link keyword that no rule
\* matches
C3_Witness ==
  /\ pc = "extract"
  /\ MatchingOperations(user_input) = {}
  /\ Contains(Lower(user_input), "www")
  /\ Contains(Lower(user_input), "pages")
  /\ Contains(Lower(user_input), "links")
  /\ tool_name = "crawl_website"

\* C4: when the Firecrawl call of a tool function raises, the function
\* returns the payload {"error": message}, and no call of any of the six
\* functions ends with an exception.
C4_ErrorPayload ==
  fn.name # "none" =>
    /\ fn.outcome.status = "returned"
    /\ fn.remote.kind = "raise" =>
         fn.outcome.value = JsonText([error |-> fn.remote.message])

\* deep_analysis whose deep_research call raised
C4_Witness ==
  /\ fn.name = "deep_analysis"
  /\ fn.remote.kind = "raise"
  /\ fn.outcome = Returned(JsonText([error |-> "connection refused"]))

\* C5: whatever the tool and the fallback agent do, raising included,
\* process_request returns the tool's result, an error message or the
\* agent's answer, each with content, and raises nothing.
C5_AlwaysContent ==
  pc = "done" =>
    /\ result.kind \in {"tool", "error", "fallback"}
    /\ result.text # ""
    /\ result.kind = "tool" =>
         LastCall.op = "_run" /\ result.text \in ToolReturns
    /\ result.kind = "fallback" =>
         LastCall.op = "agent.run" /\ result.text \in AgentReturns
    /\ result.kind = "error" =>
         \E message \in ExceptionMessages :
           result.text = "Error processing request: " \o message

\* a request whose fallback agent raised
C5_Witness ==
  /\ pc = "done"
  /\ LastCall.op = "agent.run"
  /\ result.kind = "error"

IsEmpty(value) ==
  \/ value.ty = "str" /\ value.v = ""
  \/ value.ty = "list" /\ value.v = <<>>

RequiredOf(name) ==
  {required_params[name][k] : k \in 1..Len(required_params[name])}

Range(seq) == {seq[k] : k \in 1..Len(seq)}

\* C6: _validate_parameters returns False for a name outside the six
\* operations, False when a required argument is absent, an empty string or
\* an empty list, and True when every required argument is present with a
\* non-empty value.
C6_Validator ==
  pc = "validate_return" =>
    /\ tool_name \notin Range(CatalogOrder) => ~valid
    /\ (/\ tool_name \in Range(CatalogOrder)
        /\ \E a \in RequiredOf(tool_name) :
             a \notin DOMAIN params \/ IsEmpty(params[a])) => ~valid
    /\ (/\ tool_name \in Range(CatalogOrder)
        /\ \A a \in RequiredOf(tool_name) :
             a \in DOMAIN params /\ ~IsEmpty(params[a])) => valid

\* C7: a crawl_website argument set with a non-empty url and the limit zero
\* is accepted by the validator.
C7_ZeroIsPresent ==
  (/\ AfterValidation
   /\ tool_name = "crawl_website"
   /\ "url" \in DOMAIN params
   /\ ~IsEmpty(params["url"])
   /\ params["limit"] = IntV(0)) => valid

EmptyAfterStripping(text) == Strip(StripPhrases(text, 1)) = ""

\* C8: for a search request whose text is empty after the command phrases
\* are stripped, the query is the empty string, the limit is the default 10,
\* the validator rejects the argument set and the request ends in the
\* fallback without a call of the tool.
C8_EmptyQueryRejected ==
  (AfterExtraction /\ tool_name = "search_website"
     /\ EmptyAfterStripping(user_input)) =>
    /\ params = ("query" :> StrV("")) @@ ("limit" :> IntV(10))
    /\ pc # "run_tool"
    /\ pc \in {"fallback", "done"} => Called("_validate_parameters") /\ ~valid
    /\ pc = "done" => ~Called("_run") /\ LastCall.op = "agent.run"

\* a search request made of command phrases only, answered by the agent
C8_Witness ==
  /\ pc = "done"
  /\ tool_name = "search_website"
  /\ EmptyAfterStripping(user_input)
  /\ params["query"] = StrV("")
  /\ result.kind = "fallback"

\* the three-stage rule: the integer after limit, max, maximum or up to, else
\* the integer of a phrase <int> pages, links or results, else the default
ThreeStageLimit(lower, default) ==
  IF Search(Cat(<<LimitPre, D1>>), lower)
  THEN ToInt(SearchGroup(LimitPre, D1, Empty, lower))
  ELSE IF Search(Cat(<<WordBoundary, D1, NumberPost>>), lower)
       THEN ToInt(SearchGroup(WordBoundary, D1, NumberPost, lower))
       ELSE default

\* C9: crawl_website, search_website and map_links take their limit by the
\* same three-stage rule, with the defaults 10, 10 and 20, and scrape_website
\* receives no limit.
C9_ThreeStageLimit ==
  AfterExtraction =>
    /\ tool_name = "crawl_website" =>
         params["limit"] = IntV(ThreeStageLimit(Lower(user_input), 10))
    /\ tool_name = "search_website" =>
         params["limit"] = IntV(ThreeStageLimit(Lower(user_input), 10))
    /\ tool_name = "map_links" =>
         params["limit"] = IntV(ThreeStageLimit(Lower(user_input), 20))
    /\ tool_name = "scrape_website" => "limit" \notin DOMAIN params

TimePhrase == Cat(<<TimePre, D1, TimePost>>)

\* the unit token of the phrase that time_match matched
MatchedUnit(lower) ==
  SearchGroup(Cat(<<TimePre, D1, S0>>),
              Alt(<<Plural("second"), Plural("minute")>>), Empty, lower)

\* C10: for deep_analysis, when a time phrase is matched, time_limit is the
\* integer of the phrase times 60 exactly when the unit of the matched phrase
\* is a minute form, and the integer unchanged when it is a second form.
C10_MinutesOfMatchedUnit ==
  LET lower == Lower(user_input)
  IN (AfterExtraction /\ tool_name = "deep_analysis"
        /\ Search(TimePhrase, lower)) =>
       LET n == ToInt(SearchGroup(TimePre, D1, TimePost, lower))
       IN params["time_limit"] =
            IntV(IF MatchedUnit(lower) \in {"minute", "minutes"}
                 THEN n * 60 ELSE n)

\* C11: for the text "search for rust async runtimes limit 5" identify_tool
\* returns search_website and extract_parameters yields exactly the query
\* "rust async runtimes" and the limit 5.
C11_SearchExample ==
  (user_input = "search for rust async runtimes limit 5"
     /\ pc \notin {"idle", "identify"}) =>
    /\ tool_name = "search_website"
    /\ AfterExtraction =>
         params = ("query" :> StrV("rust async runtimes"))
                    @@ ("limit" :> IntV(5))

\* the text contains an http or https URL
HasHttpUrl(text) == Contains(text, "http://") \/ Contains(text, "https://")

\* the text contains none of the crawl-intent and link-intent keywords
NoCrawlOrLinkKeyword(text) ==
  ~ContainsAny(Lower(text), <<"crawl", "multiple", "pages", "limit",
                              "links", "map", "discover">>)

\* C12, as stated: for every text with an http or https URL and none of the
\* keywords crawl, multiple, pages, limit, links, map, discover, identify_tool
\* returns scrape_website.
C12_UrlMeansScrape ==
  (Identified /\ HasHttpUrl(user_input)
     /\ NoCrawlOrLinkKeyword(user_input)) =>
    tool_name = "scrape_website"

\* C12, amended: for every text with an http or https URL, none of the
\* keywords crawl, multiple, pages, limit, links, map, discover and no
\* matching pattern rule of an operation other than scrape_website,
\* identify_tool returns scrape_website.
C12_UrlMeansScrapeUnlessRule ==
  (Identified /\ HasHttpUrl(user_input)
     /\ NoCrawlOrLinkKeyword(user_input)
     /\ MatchingOperations(user_input) \subseteq {1}) =>
    tool_name = "scrape_website"

\* a text with a URL and the keyword find, which no rule matches, resolved
\* to scrape_website
C12_Witness ==
  /\ pc = "extract"
  /\ HasHttpUrl(user_input)
  /\ NoCrawlOrLinkKeyword(user_input)
  /\ MatchingOperations(user_input) = {}
  /\ Contains(Lower(user_input), "find")
  /\ tool_name = "scrape_website"

\* the k-th character of the text can stand inside a URL token
UrlCharAt(text, k) == k <= Len(text) /\ Char(text, k) \notin UrlStop

\* the prefix, followed by one more character of a token, stands at offset i
TokenAt(text, i, prefix) ==
  /\ i + Len(prefix) <= Len(text)
  /\ SubSeq(text, i + 1, i + Len(prefix)) = prefix
  /\ UrlCharAt(text, i + Len(prefix) + 1)

\* a URL token starts at offset i
UrlStartsAt(text, i) ==
  TokenAt(text, i, "http://") \/ TokenAt(text, i, "https://")

HasUrlToken(text) == \E i \in 0..Len(text) : UrlStartsAt(text, i)

\* the first URL token of the text, in the text's own letter case
FirstUrlToken(text) ==
  LET i == CHOOSE a \in 0..Len(text) :
             /\ UrlStartsAt(text, a)
             /\ \A b \in 0..(a - 1) : ~UrlStartsAt(text, b)
      j == CHOOSE e \in (i + 1)..Len(text) :
             /\ \A k \in (i + 1)..e : UrlCharAt(text, k)
             /\ ~UrlCharAt(text, e + 1)
  IN SubSeq(text, i + 1, j)

\* C13: for scrape_website, crawl_website and map_links the url argument is
\* the first http:// or https:// token of the original text in its original
\* letter case; a text without such a token leaves url unset, and the
\* extraction ends without an error.
C13_FirstUrl ==
  (AfterExtraction
     /\ tool_name \in {"scrape_website", "crawl_website", "map_links"}) =>
    /\ IF HasUrlToken(user_input)
       THEN /\ "url" \in DOMAIN params
            /\ params["url"] = StrV(FirstUrlToken(user_input))
       ELSE "url" \notin DOMAIN params
    /\ pc = "validate" => result = NoResult

\* a text with two URLs, the first with capital letters
C13_Witness ==
  /\ pc = "validate"
  /\ tool_name = "scrape_website"
  /\ user_input = "https://A.com/Path http://b.org"
  /\ params["url"] = StrV("https://A.com/Path")

\* C14: identify_tool and extract_parameters, run again on the text of an
\* earlier request after any requests in between, yield the operation and
\* the argument set they yielded then, and the pattern catalog and the tool
\* list stay as they were constructed.
C14_Idempotent ==
  /\ tool_patterns = ToolPatterns
  /\ tools = FirecrawlTools
  /\ (previous # NoRequest /\ user_input = previous.text) =>
       /\ pc \notin {"idle", "identify"} => tool_name = previous.tool_name
       /\ pc \in {"validate", "run_tool", "fallback", "done"} =>
            params = previous.params

\* a text served a second time, with the operation and the argument set of
\* its earlier serving
C14_Witness ==
  /\ pc = "validate"
  /\ previous # NoRequest
  /\ previous.text = "crawl the website find links"
  /\ user_input = previous.text
  /\ tool_name = "crawl_website"
  /\ params = previous.params

\* the number of calls of the operation made for the current request
CountOf(op) == Cardinality({k \in 1..Len(calls) : calls[k].op = op})

\* the call before the k-th call of the current request
Before(k) == IF k > 1 THEN calls[k - 1].op ELSE "none"

\* C15: one request makes one pass in the order identify_tool,
\* extract_parameters, _validate_parameters, dispatch: extract_parameters
\* runs only after identify_tool returned an operation, _validate_parameters
\* only after extract_parameters, the tool only after _validate_parameters,
\* and a request completes at most one remote call, a tool invocation or an
\* agent run, never both and never two of either.
C15_OnePass ==
  /\ \A op \in {"identify_tool", "extract_parameters",
                 "_validate_parameters", "_run", "agent.run"} :
       CountOf(op) <= 1
  /\ CountOf("_run") + CountOf("agent.run") <= 1
  /\ \A k \in 1..Len(calls) :
       /\ calls[k].op = "identify_tool" => k = 1
       /\ calls[k].op = "extract_parameters" =>
            Before(k) = "identify_tool" /\ tool_name # None
       /\ calls[k].op = "_validate_parameters" =>
            Before(k) = "extract_parameters"
       /\ calls[k].op = "_run" => Before(k) = "_validate_parameters"
       /\ calls[k].op = "agent.run" =>
            Before(k) \in {"identify_tool", "_validate_parameters"}
  /\ pc = "done" => CountOf("_run") + CountOf("agent.run") = 1

\* a request that went through the four steps and whose tool raised
C15_Witness ==
  /\ pc = "done"
  /\ Len(calls) = 4
  /\ calls[4].op = "_run"
  /\ result.kind = "error"

\* the offsets at which one of the tokens extract, get, find, pull out
\* occurs in the lower-cased text
TokenOffsets(lower) ==
  {i \in 0..Len(lower) :
     \E token \in {"extract", "get", "find", "pull out"} :
       /\ i + Len(token) <= Len(lower)
       /\ SubSeq(lower, i + 1, i + Len(token)) = token}

\* the suffix of the text from the first occurrence of any of the tokens, the
\* whole text when none occurs
SuffixFromFirstToken(text) ==
  LET offsets == TokenOffsets(Lower(text))
  IN IF offsets = {} THEN text
     ELSE LET first == CHOOSE i \in offsets : \A j \in offsets : i <= j
          IN SubSeq(text, first + 1, Len(text))

RECURSIVE UrlTokensFrom(_, _)
\* the URL tokens of the text that start at offset i or later, in order
UrlTokensFrom(text, i) ==
  IF ~HasUrlToken(SubSeq(text, i + 1, Len(text))) THEN <<>>
  ELSE LET rest == SubSeq(text, i + 1, Len(text))
           url == FirstUrlToken(rest)
           at == CHOOSE a \in 0..Len(rest) :
                   /\ UrlStartsAt(rest, a)
                   /\ \A b \in 0..(a - 1) : ~UrlStartsAt(rest, b)
       IN <<url>> \o UrlTokensFrom(text, i + at + Len(url))

\* C16: for extract_content the prompt is the suffix of the original text
\* from the first occurrence in the text of any of extract, get, find, pull
\* out, the whole text when none occurs, and urls is the list of all the
\* http(s) URLs of the text, which may be empty.
C16_PromptFromFirstToken ==
  (AfterExtraction /\ tool_name = "extract_content") =>
    /\ DOMAIN params = {"urls", "prompt"}
    /\ params["urls"] = ListV(UrlTokensFrom(user_input, 0))
    /\ params["prompt"] = StrV(SuffixFromFirstToken(user_input))

\* C17: for the text "crawl https://example.com limit 15 pages"
\* identify_tool returns crawl_website and extract_parameters yields exactly
\* the url "https://example.com" and the limit 15.
C17_CrawlExample ==
  (user_input = "crawl https://example.com limit 15 pages"
     /\ pc \notin {"idle", "identify"}) =>
    /\ tool_name = "crawl_website"
    /\ AfterExtraction =>
         params = ("url" :> StrV("https://example.com"))
                    @@ ("limit" :> IntV(15))

\* the crawl example, extracted
C17_Witness ==
  /\ user_input = "crawl https://example.com limit 15 pages"
  /\ pc = "validate"
  /\ params["limit"] = IntV(15)

\* C18: for the text "research on quantum computing depth 3 timeout 2
\* minutes" the operation is deep_analysis and extract_parameters yields the
\* query that is the text after "research", max_depth 3 and time_limit 120.
C18_ResearchExample ==
  (user_input = "research on quantum computing depth 3 timeout 2 minutes"
     /\ pc \notin {"idle", "identify"}) =>
    /\ tool_name = "deep_analysis"
    /\ AfterExtraction =>
         params =
           ("query" :> StrV("on quantum computing depth 3 timeout 2 minutes"))
             @@ ("max_depth" :> IntV(3)) @@ ("time_limit" :> IntV(120))

\* the research example, extracted
C18_Witness ==
  /\ user_input = "research on quantum computing depth 3 timeout 2 minutes"
  /\ pc = "validate"
  /\ params["time_limit"] = IntV(120)

\* C19: for the text "map links about pricing on https://site.io limit 30"
\* identify_tool returns map_links and extract_parameters yields the url
\* "https://site.io", the limit 30 and the search filter that starts with
\* "pricing" and ends before the first comma, period or newline after
\* "about", here the period of site.io.
C19_MapExample ==
  (user_input = "map links about pricing on https://site.io limit 30"
     /\ pc \notin {"idle", "identify"}) =>
    /\ tool_name = "map_links"
    /\ AfterExtraction =>
         params = ("url" :> StrV("https://site.io"))
                    @@ ("search" :> StrV("pricing on https://site"))
                    @@ ("limit" :> IntV(30))

\* the map example, extracted
C19_Witness ==
  /\ user_input = "map links about pricing on https://site.io limit 30"
  /\ pc = "validate"
  /\ params["search"] = StrV("pricing on https://site")

\* C20: for scrape_website the format is html if the text contains html,
\* else json if it contains json, else markdown if it contains markdown or
\* md, and otherwise no formats argument is set; onlyMainContent is true
\* exactly when the text contains main content, only content or no
\* navigation, and is otherwise not set.
C20_FormatPrecedence ==
  (AfterExtraction /\ tool_name = "scrape_website") =>
    LET lower == Lower(user_input)
        wanted == ContainsAny(lower, <<"main content", "only content",
                                       "no navigation">>)
    IN /\ IF Contains(lower, "html")
          THEN "formats" \in DOMAIN params
                 /\ params["formats"] = ListV(<<"html">>)
          ELSE IF Contains(lower, "json")
               THEN "formats" \in DOMAIN params
                      /\ params["formats"] = ListV(<<"json">>)
               ELSE IF Contains(lower, "markdown") \/ Contains(lower, "md")
                    THEN "formats" \in DOMAIN params
                           /\ params["formats"] = ListV(<<"markdown">>)
                    ELSE "formats" \notin DOMAIN params
       /\ wanted <=> "onlyMainContent" \in DOMAIN params
       /\ wanted => params["onlyMainContent"] = BoolV(TRUE)

\* a page request that names json and html, extracted with the format html
C20_Witness ==
  /\ pc = "validate"
  /\ tool_name = "scrape_website"
  /\ Contains(Lower(user_input), "json")
  /\ Contains(Lower(user_input), "html")
  /\ params["formats"] = ListV(<<"html">>)

\* the lower-cased text has "about", white space and then a character of a
\* filter term: not white space, comma or period
HasFilterTerm(lower) ==
  \E i \in 0..Len(lower), j \in 1..Len(lower) :
    /\ i + 5 < j
    /\ SubSeq(lower, i + 1, i + 5) = "about"
    /\ \A k \in (i + 6)..(j - 1) : Char(lower, k) \in WhiteSpace
    /\ Char(lower, j) \notin WhiteSpace \cup {",", "."}

\* C21: the map_links tool is invoked only for a text with "about" and a
\* non-empty filter term after it; a map_links request whose text has no
\* "about" gets the empty search filter, is rejected by the validator and
\* ends in the fallback agent, also when url and limit are present.
C21_MapNeedsFilter ==
  (AfterExtraction /\ tool_name = "map_links") =>
    /\ Called("_run") =>
         /\ HasFilterTerm(Lower(user_input))
         /\ params["search"].v # ""
    /\ ~Contains(Lower(user_input), "about") =>
         /\ params["search"] = StrV("")
         /\ pc # "run_tool"
         /\ pc \in {"fallback", "done"} =>
              Called("_validate_parameters") /\ ~valid
         /\ pc = "done" => ~Called("_run") /\ LastCall.op = "agent.run"

\* a map_links request with a url and a limit and no filter, answered by the
\* agent
C21_Witness ==
  /\ pc = "done"
  /\ tool_name = "map_links"
  /\ ~Contains(Lower(user_input), "about")
  /\ "url" \in DOMAIN params
  /\ params["limit"] = IntV(20)
  /\ params["search"] = StrV("")
  /\ result.kind = "fallback"

\* the argument model in the signature of each of the six tool functions
ModelOf ==
  ("scrape_website" :> "ScrapWebsite") @@
  ("crawl_website" :> "CrawlWebsite") @@
  ("search_website" :> "SearchWebsite") @@
  ("map_links" :> "MapUrls") @@
  ("extract_content" :> "ExtractContent") @@
  ("deep_analysis" :> "DeepResearch")

\* process_user_prompt has run on a well-formed call of one of the six tools
Dispatched ==
  /\ output_text.kind = "tool_call"
  /\ output_text.tool_name \in DOMAIN ModelOf
  /\ output_text.params = ModelOf[output_text.tool_name]
  /\ handler # "process_user_prompt"

\* C22: tool_mapping and tool_schemas/tool_parsers have the same keys, so a
\* well-formed tool call that names one of the six tools passes both lookups
\* of process_user_prompt and the tool is invoked: the run is not ended by a
\* KeyError.
C22_TablesAgree ==
  Dispatched =>
    /\ output_text.tool_name \in DOMAIN tool_mapping
    /\ output_text.tool_name \in DOMAIN tool_parsers
    /\ uncaught # KeyError(output_text.tool_name)
    /\ handler = "chat_input" => uncaught # "ValidationError"

\* the message occurs in a field of an item of the cleaned data
Mentions(data, message) ==
  \E k \in 1..Len(data) :
    \E field \in DOMAIN data[k] : Contains(data[k][field], message)

\* C23: when the dispatched tool returned an error payload, the data that
\* clean_web_output hands to gemini_llm_response contains the error message.
C23_ErrorVisible ==
  (handler \in {"gemini_llm_response", "chat_message"}
     /\ "error" \in DOMAIN llm_output) =>
    Mentions(clean_data, llm_output["error"])

\* C24: chat_history alternates user, assistant, user, ... from a user
\* entry on, and every handled prompt, one that raised included, has left
\* one user entry followed by one assistant entry.
C24_Alternates ==
  /\ \A k \in 1..Len(chat_history) :
       chat_history[k].role = IF k % 2 = 1 THEN "user" ELSE "assistant"
  /\ handler = "chat_input" => Len(chat_history) % 2 = 0
====
